---- MODULE Spec2Model ----
(***************************************************************************)
(* Dashboard.py: a Streamlit script.  Streamlit executes the whole script, *)
(* top to bottom, in a fresh namespace on every user interaction.  A pass  *)
(* is modelled section by section, in the order of the file:               *)
(*   Load (l.12-28), KeyStats (l.33-37), Filters (l.44-54),                *)
(*   Sidebar (l.60-89), MainContent (l.93-137), DataTable (l.141-143).     *)
(* The values the widgets return are the inputs of a pass.                 *)
(***************************************************************************)
EXTENDS Integers, Sequences, FiniteSets, TLC

(* ------------------------------ bounds -------------------------------- *)

\* Longest CSV file (data rows).
MaxRows == 2
\* Largest value typed into a number input.
MaxCount == 1

(* ------------------------- program constants -------------------------- *)

month_names ==
    << "January", "February", "March", "April", "May", "June", "July",
       "August", "September", "October", "November", "December" >>

\* l.20-24: the dict month name -> number.
month_mapping ==
    [m \in {month_names[i] : i \in 1..Len(month_names)} |->
        CHOOSE i \in 1..Len(month_names) : month_names[i] = m]

NaN == 0 - 1

\* Mutant: the months numbered from 0.
MapMonth_ZeroBased(m) == IF m \in DOMAIN month_mapping THEN month_mapping[m] - 1 ELSE NaN

\* l.28, l.87: Series.map(month_mapping); a key the dict lacks maps to NaN.
MapMonth(m) == IF m \in DOMAIN month_mapping THEN month_mapping[m] ELSE NaN

view_options == << "-- Select --", "Dengue Cases", "Dengue Deaths", "Both" >>

RegionPlaceholder == "-- Select Region --"
MonthPlaceholder == "-- Select Month --"
\* A text is a sequence of tokens: a decimal numeral is its digits, the
\* placeholder one token.
YearPlaceholder == << "-- Select Year --" >>

FirstFormYear == 2010
LastFormYear == 2030

Digits == << "0", "1", "2", "3", "4", "5", "6", "7", "8", "9" >>

\* str(y) of a non-negative int: its decimal digits.
RECURSIVE Str(_)
Str(n) == IF n < 10 THEN << Digits[n + 1] >>
          ELSE Str(n \div 10) \o << Digits[(n % 10) + 1] >>

DigitValue(c) == CHOOSE d \in 0..9 : Digits[d + 1] = c

\* int(s) of a decimal numeral.
RECURSIVE IntOf(_)
IntOf(s) == IF Len(s) = 1 THEN DigitValue(s[1])
            ELSE 10 * IntOf(SubSeq(s, 1, Len(s) - 1)) + DigitValue(s[Len(s)])

\* l.63
years_with_empty == << YearPlaceholder >> \o [i \in 1..(LastFormYear - FirstFormYear + 1) |-> Str(FirstFormYear + i - 1)]

\* l.66
months_with_empty == << MonthPlaceholder >> \o month_names

(* ------------------------------ helpers ------------------------------- *)

Range(s) == {s[i] : i \in 1..Len(s)}

RECURSIVE SumSeq(_)
SumSeq(s) == IF s = << >> THEN 0 ELSE s[1] + SumSeq(Tail(s))

\* Mutant: count() in place of sum().
ColumnSum_Count(rows, col) == Len(rows)

\* Series.sum() of one column.
ColumnSum(rows, col) == SumSeq([i \in 1..Len(rows) |-> rows[i][col]])

\* Series.unique() as a set.
Unique(rows, col) == {rows[i][col] : i \in 1..Len(rows)}

\* Python's order on the region names used here (single capital letters).
Alphabet == << "A", "B", "C", "D" >>
Rank(name) == CHOOSE i \in 1..Len(Alphabet) : Alphabet[i] = name

CsvRow(region, year, month, cases, deaths) ==
    [Region |-> region, Year |-> year, Month |-> month,
     Dengue_Cases |-> cases, Dengue_Deaths |-> deaths]

\* l.28 and l.87: the row with its Month_Num column.
WithMonthNum(row) ==
    [Region |-> row.Region, Year |-> row.Year, Month |-> row.Month,
     Dengue_Cases |-> row.Dengue_Cases, Dengue_Deaths |-> row.Dengue_Deaths,
     Month_Num |-> MapMonth(row.Month)]

\* l.142: drop(columns=["Month_Num"]).
DropMonthNum(row) ==
    [Region |-> row.Region, Year |-> row.Year, Month |-> row.Month,
     Dengue_Cases |-> row.Dengue_Cases, Dengue_Deaths |-> row.Dengue_Deaths]

\* All sequences over S of length at most n.
SeqsUpTo(S, n) == UNION {[1..k -> S] : k \in 0..n}

(* --------------------- the tabular-data operations -------------------- *)

\* l.94: df[df['Region'].isin(regions) & df['Year'].isin(years)]
FilterRegionYear(rows, regions, years) ==
    SelectSeq(rows, LAMBDA r : r.Region \in regions /\ r.Year \in years)

\* l.96: filtered_df[filtered_df['Month'].isin(months)]
FilterMonth(rows, months) == SelectSeq(rows, LAMBDA r : r.Month \in months)

\* l.93-96: the rows the charts are built from.
FilterRows(rows, regions, years, months) ==
    IF months # {} THEN FilterMonth(FilterRegionYear(rows, regions, years), months)
    ELSE FilterRegionYear(rows, regions, years)

\* groupby sorts its group keys: Year first, then Region.
KeyBefore(a, b) == a[1] < b[1] \/ (a[1] = b[1] /\ Rank(a[2]) < Rank(b[2]))

RECURSIVE SortedKeys(_)
SortedKeys(keys) ==
    IF keys = {} THEN << >>
    ELSE LET first == CHOOSE k \in keys : \A o \in keys \ {k} : KeyBefore(k, o)
         IN  << first >> \o SortedKeys(keys \ {first})

\* Mutant: agg 'first' in place of 'sum'.
GroupSum_First(rows) ==
    LET keys == SortedKeys({<< rows[i].Year, rows[i].Region >> : i \in 1..Len(rows)})
        members(k) == SelectSeq(rows, LAMBDA r : r.Year = k[1] /\ r.Region = k[2])
    IN  [g \in 1..Len(keys) |->
            [Year |-> keys[g][1], Region |-> keys[g][2],
             Dengue_Cases |-> members(keys[g])[1].Dengue_Cases,
             Dengue_Deaths |-> members(keys[g])[1].Dengue_Deaths]]

\* l.102-105: groupby(['Year','Region'], as_index=False).agg(sum, sum)
GroupSum(rows) ==
    LET keys == SortedKeys({<< rows[i].Year, rows[i].Region >> : i \in 1..Len(rows)})
        members(k) == SelectSeq(rows, LAMBDA r : r.Year = k[1] /\ r.Region = k[2])
    IN  [g \in 1..Len(keys) |->
            [Year |-> keys[g][1], Region |-> keys[g][2],
             Dengue_Cases |-> ColumnSum(members(keys[g]), "Dengue_Cases"),
             Dengue_Deaths |-> ColumnSum(members(keys[g]), "Dengue_Deaths")]]

\* sort_values puts a NaN key after every number (na_position='last').
NumKey(v) == IF v = NaN THEN Len(month_names) + 1 ELSE v

\* Mutant: rows of equal keys change places (a sort that is not stable).
RowBefore_OrEqual(a, b) ==
    a.Year < b.Year \/ (a.Year = b.Year /\ NumKey(a.Month_Num) <= NumKey(b.Month_Num))

\* l.142: the order of by=["Year", "Month_Num"].
RowBefore(a, b) ==
    a.Year < b.Year \/ (a.Year = b.Year /\ NumKey(a.Month_Num) < NumKey(b.Month_Num))

\* One row placed into a sorted run, after the rows that do not come after it.
RECURSIVE InsertRow(_, _)
InsertRow(row, sorted) ==
    IF sorted = << >> THEN << row >>
    ELSE IF RowBefore(row, sorted[1]) THEN << row >> \o sorted
    ELSE << sorted[1] >> \o InsertRow(row, Tail(sorted))

\* l.142: sort_values(by=["Year","Month_Num"]); on several keys pandas sorts
\* with a lexsort, which keeps rows of equal keys in their order.
RECURSIVE SortValues(_)
SortValues(rows) ==
    IF rows = << >> THEN << >>
    ELSE InsertRow(rows[Len(rows)], SortValues(SubSeq(rows, 1, Len(rows) - 1)))

\* Mutant: "Both" left out of the second chart's condition.
ChartsFor_BothWithoutDeaths(mode) ==
    (IF mode \in {"Dengue Cases", "Both"} THEN << "cases_chart" >> ELSE << >>)
    \o (IF mode \in {"Dengue Deaths"} THEN << "deaths_chart" >> ELSE << >>)

\* l.108, l.123: the charts a display mode asks for, in rendering order.
ChartsFor(mode) ==
    (IF mode \in {"Dengue Cases", "Both"} THEN << "cases_chart" >> ELSE << >>)
    \o (IF mode \in {"Dengue Deaths", "Both"} THEN << "deaths_chart" >> ELSE << >>)

\* Mutant: "or" in place of "and".
FiltersChosen_Either(regions, years) == regions # {} \/ years # {}

\* l.93: both selections are non-empty lists.
FiltersChosen(regions, years) == regions # {} /\ years # {}

\* Mutant: the month's placeholder is not looked at.
PlaceholderLeft_MonthUnchecked(region, year, month) ==
    region = RegionPlaceholder \/ year = YearPlaceholder

\* l.74: a select box still shows its placeholder.
PlaceholderLeft(region, year, month) ==
    region = RegionPlaceholder \/ month = MonthPlaceholder \/ year = YearPlaceholder

\* l.78-87: the new row of the form's values.
NewRow(region, year, month, cases, deaths) ==
    WithMonthNum(CsvRow(region, IntOf(year), month, cases, deaths))

(* ------------------------------- state -------------------------------- *)

VARIABLES
    csv,                \* the data rows of the file at DATA_PATH
    pc,                 \* the section of the script the pass is about to run
    bound,              \* the script's names assigned so far in this pass
    page,               \* what the pass has rendered so far, in order
    df,
    total_cases, total_deaths,
    selected_regions, selected_years, selected_months, data_view_option,
    new_region, new_year, new_month, new_cases, new_deaths,
    add_clicked,        \* st.sidebar.button("Add Data") of this pass
    filtered_df, yearly_grouped, sorted_df

vars == << csv, pc, bound, page, df, total_cases, total_deaths,
           selected_regions, selected_years, selected_months, data_view_option,
           new_region, new_year, new_month, new_cases, new_deaths, add_clicked,
           filtered_df, yearly_grouped, sorted_df >>

\* A fresh namespace: no name is assigned (the values below are fillers, read
\* only once "bound" holds the name).
FreshNamespace ==
    /\ bound = {}
    /\ page = << >>
    /\ df = << >>
    /\ total_cases = 0 /\ total_deaths = 0
    /\ selected_regions = {} /\ selected_years = {} /\ selected_months = {}
    /\ data_view_option = view_options[1]
    /\ new_region = RegionPlaceholder /\ new_year = YearPlaceholder
    /\ new_month = MonthPlaceholder /\ new_cases = 0 /\ new_deaths = 0
    /\ add_clicked = FALSE
    /\ filtered_df = << >> /\ yearly_grouped = << >> /\ sorted_df = << >>

Init(files) ==
    /\ csv \in files
    /\ pc = "load"
    /\ FreshNamespace

(* ------------------------------ sections ------------------------------ *)

\* l.13-14 and l.28: the file is read and Month_Num derived; a pass starts in
\* a fresh namespace whatever the pass before it left.
LoadOk ==
    /\ pc \in {"load", "done", "stopped"}
    /\ pc' = "stats"
    /\ df' = [i \in 1..Len(csv) |-> WithMonthNum(csv[i])]
    /\ bound' = {"df"}
    /\ page' = << >>
    /\ total_cases' = 0 /\ total_deaths' = 0
    /\ selected_regions' = {} /\ selected_years' = {} /\ selected_months' = {}
    /\ data_view_option' = view_options[1]
    /\ new_region' = RegionPlaceholder /\ new_year' = YearPlaceholder
    /\ new_month' = MonthPlaceholder /\ new_cases' = 0 /\ new_deaths' = 0
    /\ add_clicked' = FALSE
    /\ filtered_df' = << >> /\ yearly_grouped' = << >> /\ sorted_df' = << >>
    /\ UNCHANGED csv

\* Mutant: the error is shown and st.stop() is missing.
LoadFails_NoStop ==
    /\ pc \in {"load", "done", "stopped"}
    /\ pc' = "stats"
    /\ df' = << >>
    /\ bound' = {}
    /\ page' = << "load_error" >>
    /\ total_cases' = 0 /\ total_deaths' = 0
    /\ selected_regions' = {} /\ selected_years' = {} /\ selected_months' = {}
    /\ data_view_option' = view_options[1]
    /\ new_region' = RegionPlaceholder /\ new_year' = YearPlaceholder
    /\ new_month' = MonthPlaceholder /\ new_cases' = 0 /\ new_deaths' = 0
    /\ add_clicked' = FALSE
    /\ filtered_df' = << >> /\ yearly_grouped' = << >> /\ sorted_df' = << >>
    /\ UNCHANGED csv

\* l.15-17: read_csv raises; st.error, then st.stop() ends the pass.
LoadFails ==
    /\ pc \in {"load", "done", "stopped"}
    /\ pc' = "stopped"
    /\ df' = << >>
    /\ bound' = {}
    /\ page' = << "load_error" >>
    /\ total_cases' = 0 /\ total_deaths' = 0
    /\ selected_regions' = {} /\ selected_years' = {} /\ selected_months' = {}
    /\ data_view_option' = view_options[1]
    /\ new_region' = RegionPlaceholder /\ new_year' = YearPlaceholder
    /\ new_month' = MonthPlaceholder /\ new_cases' = 0 /\ new_deaths' = 0
    /\ add_clicked' = FALSE
    /\ filtered_df' = << >> /\ yearly_grouped' = << >> /\ sorted_df' = << >>
    /\ UNCHANGED csv

\* l.33-37
KeyStats ==
    /\ pc = "stats"
    /\ pc' = "filters"
    /\ total_cases' = ColumnSum(df, "Dengue_Cases")
    /\ total_deaths' = ColumnSum(df, "Dengue_Deaths")
    /\ bound' = bound \cup {"total_cases", "total_deaths"}
    /\ page' = page \o << "title", "total_cases", "total_deaths" >>
    /\ UNCHANGED << csv, df, selected_regions, selected_years, selected_months,
                    data_view_option, new_region, new_year, new_month, new_cases,
                    new_deaths, add_clicked, filtered_df, yearly_grouped, sorted_df >>

\* l.44-54: the filter widgets return what the user has chosen among their
\* options; in.regions, in.years and in.months are the selections tried.
Filters(in) ==
    /\ pc = "filters"
    /\ pc' = "sidebar"
    /\ selected_regions' \in {s \in in.regions : s \subseteq Unique(df, "Region")}
    /\ selected_years' \in {s \in in.years : s \subseteq Unique(df, "Year")}
    /\ selected_months' \in {s \in in.months : s \subseteq Range(month_names)}
    /\ data_view_option' \in in.modes \cap Range(view_options)
    /\ bound' = bound \cup {"selected_regions", "selected_years", "selected_months",
                            "data_view_option"}
    /\ page' = page \o << "filters" >>
    /\ UNCHANGED << csv, df, total_cases, total_deaths, new_region, new_year,
                    new_month, new_cases, new_deaths, add_clicked, filtered_df,
                    yearly_grouped, sorted_df >>

\* l.60-89: the form's widgets, then the Add Data handler.
Sidebar(in) ==
    /\ pc = "sidebar"
    /\ pc' = "main"
    /\ new_region' \in in.form_regions \cap ({RegionPlaceholder} \cup Unique(df, "Region"))
    /\ new_year' \in in.form_years \cap Range(years_with_empty)
    /\ new_month' \in in.form_months \cap Range(months_with_empty)
    /\ new_cases' \in in.counts
    /\ new_deaths' \in in.counts
    /\ add_clicked' \in BOOLEAN
    /\ IF ~add_clicked'
       THEN /\ df' = df
            /\ page' = page \o << "form" >>
       ELSE IF PlaceholderLeft(new_region', new_year', new_month')
       THEN /\ df' = df
            /\ page' = page \o << "form", "sidebar_error" >>
       ELSE /\ df' = df \o << NewRow(new_region', new_year', new_month',
                                      new_cases', new_deaths') >>
            /\ page' = page \o << "form", "sidebar_success" >>
    /\ bound' = bound \cup {"new_region", "new_year", "new_month", "new_cases",
                            "new_deaths"}
    /\ UNCHANGED << csv, total_cases, total_deaths, selected_regions,
                    selected_years, selected_months, data_view_option,
                    filtered_df, yearly_grouped, sorted_df >>

\* l.93-137
MainContent ==
    /\ pc = "main"
    /\ pc' = "table"
    /\ IF FiltersChosen(selected_regions, selected_years)
       THEN /\ filtered_df' = FilterRows(df, selected_regions, selected_years,
                                         selected_months)
            /\ IF data_view_option = view_options[1]
               THEN /\ page' = page \o << "info_select_display" >>
                    /\ bound' = bound \cup {"filtered_df"}
                    /\ UNCHANGED yearly_grouped
               ELSE /\ yearly_grouped' = GroupSum(filtered_df')
                    /\ page' = page \o ChartsFor(data_view_option)
                    /\ bound' = bound \cup {"filtered_df", "yearly_grouped"}
       ELSE /\ page' = page \o << "info_showing_all" >>
            /\ UNCHANGED << bound, filtered_df, yearly_grouped >>
    /\ UNCHANGED << csv, df, total_cases, total_deaths, selected_regions,
                    selected_years, selected_months, data_view_option, new_region,
                    new_year, new_month, new_cases, new_deaths, add_clicked,
                    sorted_df >>

\* l.141-143
DataTable ==
    /\ pc = "table"
    /\ pc' = "done"
    /\ sorted_df' = [i \in 1..Len(df) |-> DropMonthNum(SortValues(df)[i])]
    /\ bound' = bound \cup {"sorted_df"}
    /\ page' = page \o << "table" >>
    /\ UNCHANGED << csv, df, total_cases, total_deaths, selected_regions,
                    selected_years, selected_months, data_view_option, new_region,
                    new_year, new_month, new_cases, new_deaths, add_clicked,
                    filtered_df, yearly_grouped >>

(* --------------------------- specifications --------------------------- *)

\* The rows a file may hold.
RowsOf(regions, years, months, counts) ==
    {CsvRow(r, y, m, c[1], c[2]) : r \in regions, y \in years, m \in months, c \in counts}

\* A whole session on a small file: every filter selection over the file's
\* regions and years, a form that reaches placeholders and valid values.
SessionFiles ==
    SeqsUpTo({CsvRow("A", 2016, "January", 10, 1), CsvRow("B", 2016, "February", 20, 2)},
             MaxRows)

SessionInputs ==
    [regions |-> SUBSET {"A", "B"}, years |-> SUBSET {2016},
     months |-> {{}, {"January"}}, modes |-> Range(view_options),
     form_regions |-> {RegionPlaceholder, "A", "B"},
     form_years |-> {YearPlaceholder, Str(2016), Str(LastFormYear)},
     form_months |-> {MonthPlaceholder, "January", "December"},
     counts |-> 0..MaxCount]

Next ==
    \/ LoadOk
    \/ LoadFails
    \/ KeyStats
    \/ Filters(SessionInputs)
    \/ Sidebar(SessionInputs)
    \/ MainContent
    \/ DataTable

Spec == Init(SessionFiles) /\ [][Next]_vars

\* The Add Data form in full: every option of the three select boxes, every
\* count up to MaxCount; the filters all empty or all chosen.
FormFiles == SeqsUpTo({CsvRow("A", 2016, "January", 10, 1)}, MaxRows)

FormInputs ==
    [regions |-> {{}, {"A"}}, years |-> {{}, {2016}},
     months |-> {{}}, modes |-> {"Both"},
     form_regions |-> {RegionPlaceholder, "A"},
     form_years |-> Range(years_with_empty),
     form_months |-> Range(months_with_empty),
     counts |-> 0..MaxCount]

NextForm ==
    \/ LoadOk
    \/ LoadFails
    \/ KeyStats
    \/ Filters(FormInputs)
    \/ Sidebar(FormInputs)
    \/ MainContent
    \/ DataTable

SpecForm == Init(FormFiles) /\ [][NextForm]_vars

\* The table operations on every file of up to MaxRows rows over two regions,
\* two years and two months, one row more of a known key with other counts and
\* one row whose Month the lookup lacks, under every region and year
\* selection; the form adds one fixed row or none.
DataFiles ==
    SeqsUpTo(RowsOf({"A", "B"}, {2016, 2017}, {"January", "February"}, {<< 3, 1 >>})
                \cup {CsvRow("A", 2016, "January", 5, 0), CsvRow("B", 2017, "Sept", 2, 1)},
             MaxRows)

DataInputs ==
    [regions |-> SUBSET {"A", "B"}, years |-> SUBSET {2016, 2017},
     months |-> {{}, {"January"}}, modes |-> {"-- Select --", "Dengue Cases", "Both"},
     form_regions |-> {RegionPlaceholder, "A"},
     form_years |-> {Str(2016)},
     form_months |-> {"January"},
     counts |-> {MaxCount}]

NextData ==
    \/ LoadOk
    \/ LoadFails
    \/ KeyStats
    \/ Filters(DataInputs)
    \/ Sidebar(DataInputs)
    \/ MainContent
    \/ DataTable

SpecData == Init(DataFiles) /\ [][NextData]_vars

(* ------------------------- vocabulary of claims ----------------------- *)

\* The Dataset as loaded from the file.
Loaded == [i \in 1..Len(csv) |-> WithMonthNum(csv[i])]

IsPrefix(a, b) == Len(a) <= Len(b) /\ SubSeq(b, 1, Len(a)) = a

Rendered(tag) == tag \in Range(page)

\* The pass has run its Sidebar section, respectively its MainContent section.
AfterSidebar == pc \in {"main", "table", "done"}
AfterMain == pc \in {"table", "done"}

\* Add Data was pressed in this pass with a placeholder left / with none left.
RejectedSubmission ==
    /\ AfterSidebar /\ add_clicked
    /\ (new_region = RegionPlaceholder \/ new_year = YearPlaceholder
        \/ new_month = MonthPlaceholder)
ValidSubmission ==
    /\ AfterSidebar /\ add_clicked
    /\ new_region # RegionPlaceholder /\ new_year # YearPlaceholder
    /\ new_month # MonthPlaceholder

Total(rows, col) == SumSeq([i \in 1..Len(rows) |-> rows[i][col]])

Occurrences(row, rows) == Cardinality({i \in 1..Len(rows) : rows[i] = row})

Project(rows) == [i \in 1..Len(rows) |-> DropMonthNum(rows[i])]

CalendarIndex(month) == CHOOSE i \in 1..12 : month_names[i] = month

\* The charts on the page.
Charts == Range(page) \cap {"cases_chart", "deaths_chart"}

(* -------------------------------- C1 ---------------------------------- *)

\* C1: the Dataset is append-only across the interactions of a session: the
\* Dataset at an earlier point is a prefix of the Dataset at any later point,
\* so a Record appended by Add Data is there at every later interaction.
\* (Refuted: the pass of the next interaction reads the file again.)
C1_AppendOnly ==
    [][("df" \in bound /\ "df" \in bound') => IsPrefix(df, df')]_vars

(* -------------------------------- C2 ---------------------------------- *)

\* C2: Add Data pressed with Region, Year or Month at its placeholder is
\* rejected with the validation message and the Dataset is the loaded one,
\* unchanged, whatever Cases and Deaths hold.
C2_PlaceholderRejected ==
    RejectedSubmission =>
        /\ df = Loaded
        /\ Rendered("sidebar_error")
        /\ ~Rendered("sidebar_success")

C2_Witness ==
    /\ pc = "done" /\ RejectedSubmission
    /\ new_region # RegionPlaceholder /\ new_year # YearPlaceholder
    /\ new_month = MonthPlaceholder
    /\ new_cases = MaxCount /\ new_deaths = MaxCount
    /\ Len(df) = MaxRows

(* -------------------------------- C3 ---------------------------------- *)

\* C3: Add Data pressed with no placeholder left appends exactly one Record:
\* the length grows by 1, the loaded records keep content and order, the new
\* Record is last and carries the submitted Region, the Year as the integer
\* the chosen numeral denotes, the Month, Cases and Deaths, and Month_Num is
\* the 1-based calendar index of the Month.
C3_AppendsOneRecord ==
    ValidSubmission =>
        /\ Len(df) = Len(csv) + 1
        /\ SubSeq(df, 1, Len(csv)) = Loaded
        /\ LET new == df[Len(df)]
           IN  /\ new.Region = new_region
               /\ new.Year \in FirstFormYear..LastFormYear
               /\ Str(new.Year) = new_year
               /\ new.Month = new_month
               /\ new.Dengue_Cases = new_cases
               /\ new.Dengue_Deaths = new_deaths
               /\ new.Month_Num = CalendarIndex(new_month)
        /\ Rendered("sidebar_success")
        /\ ~Rendered("sidebar_error")

C3_Witness ==
    /\ pc = "done" /\ ValidSubmission
    /\ new_month = "December" /\ new_year = Str(LastFormYear)
    /\ new_cases = MaxCount /\ new_deaths = 0
    /\ Len(df) = MaxRows + 1
    /\ df[Len(df)].Month_Num = 12 /\ df[Len(df)].Year = LastFormYear

(* -------------------------------- C4 ---------------------------------- *)

\* C4: after a successful Add Data submission the aggregated view shown in
\* the same pass is computed without the new Record.
\* (Refuted: the append of l.88 runs before the filtering of l.94.)
C4_ViewWithoutNewRecord ==
    (AfterMain /\ ValidSubmission /\ "yearly_grouped" \in bound) =>
        yearly_grouped = GroupSum(FilterRows(Loaded, selected_regions,
                                             selected_years, selected_months))

(* -------------------------------- C5 ---------------------------------- *)

\* C5: when the file cannot be read the pass halts with the error message:
\* nothing else is rendered, no name (no Dataset, no total, no widget value,
\* no table) is assigned, and no later section runs.
C5_LoadFailureHalts ==
    Rendered("load_error") =>
        /\ pc = "stopped"
        /\ page = << "load_error" >>
        /\ bound = {}
        /\ df = << >> /\ sorted_df = << >> /\ yearly_grouped = << >>

C5_Witness == pc = "stopped" /\ Rendered("load_error") /\ Len(csv) = MaxRows

(* -------------------------------- C6 ---------------------------------- *)

\* C6: with no Region selected or no Year selected the main content is
\* "showing all": no filtering, no aggregation, no chart and no prompt,
\* whatever the Months selection and the display mode are.
C6_ShowAll ==
    (AfterMain /\ (selected_regions = {} \/ selected_years = {})) =>
        /\ Rendered("info_showing_all")
        /\ ~Rendered("info_select_display")
        /\ Charts = {}
        /\ "filtered_df" \notin bound
        /\ "yearly_grouped" \notin bound

C6_Witness ==
    /\ pc = "done"
    /\ selected_regions # {} /\ selected_years = {}
    /\ selected_months # {} /\ data_view_option = "Both"
    /\ Rendered("info_showing_all")

(* -------------------------------- C7 ---------------------------------- *)

C8_Aggregation ==
    (AfterMain /\ selected_regions # {} /\ selected_years # {}
        /\ data_view_option # "-- Select --") =>
        LET wanted(r) == /\ r.Region \in selected_regions
                         /\ r.Year \in selected_years
                         /\ (selected_months = {} \/ r.Month \in selected_months)
            rows == SelectSeq(df, wanted)
            pairs == {<< rows[i].Year, rows[i].Region >> : i \in 1..Len(rows)}
        IN  /\ "yearly_grouped" \in bound
            /\ filtered_df = rows
            /\ {<< yearly_grouped[g].Year, yearly_grouped[g].Region >> :
                    g \in 1..Len(yearly_grouped)} = pairs
            /\ Len(yearly_grouped) = Cardinality(pairs)
            /\ Total(yearly_grouped, "Dengue_Cases") = Total(rows, "Dengue_Cases")
            /\ Total(yearly_grouped, "Dengue_Deaths") = Total(rows, "Dengue_Deaths")
            /\ (rows = << >> => yearly_grouped = << >>)

\* Two rows of one group and a third group-less row left out by the filters.
C8_Witness ==
    /\ pc = "done" /\ ValidSubmission
    /\ selected_regions = {"A"} /\ selected_years = {2016}
    /\ selected_months = {"January"} /\ data_view_option = "Both"
    /\ Len(df) = MaxRows + 1 /\ Len(filtered_df) = 2
    /\ Len(yearly_grouped) = 1
    /\ yearly_grouped[1].Dengue_Cases = 5 + MaxCount

(* -------------------------------- C9 ---------------------------------- *)

\* C9: for a Dataset whose Months are all in the lookup, the table is the
\* stable sort of the Dataset by Year, then Month_Num: same length, the same
\* records as often, in ascending (Year, Month_Num) order, the records of one
\* (Year, Month_Num) in their order of insertion (an appended record after the
\* loaded ones of its Year and Month), and sorting the sorted rows again
\* changes nothing.
C9_StableSortedTable ==
    (pc = "done" /\ \A i \in 1..Len(df) : df[i].Month \in Range(month_names)) =>
        LET rows == Project(df)
            sameKey(a, b) == a.Year = b.Year /\ a.Month = b.Month
            inOrder(a, b) ==
                a.Year < b.Year
                \/ (a.Year = b.Year /\ CalendarIndex(a.Month) <= CalendarIndex(b.Month))
        IN  /\ Len(sorted_df) = Len(df)
            /\ \A r \in Range(rows) \cup Range(sorted_df) :
                   Occurrences(r, sorted_df) = Occurrences(r, rows)
            /\ \A i, j \in 1..Len(sorted_df) :
                   i < j => inOrder(sorted_df[i], sorted_df[j])
            /\ \A k \in Range(rows) :
                   SelectSeq(sorted_df, LAMBDA r : sameKey(r, k))
                       = SelectSeq(rows, LAMBDA r : sameKey(r, k))
            /\ ValidSubmission =>
                   LET last == rows[Len(rows)]
                       run == SelectSeq(sorted_df, LAMBDA r : sameKey(r, last))
                   IN  run[Len(run)] = last
            /\ Project(SortValues(SortValues(df))) = sorted_df

\* The appended record sorts into the middle of the table, behind a loaded
\* record of its Year and Month that differs from it.
C9_Witness ==
    /\ pc = "done" /\ ValidSubmission
    /\ Len(sorted_df) = MaxRows + 1
    /\ sorted_df # Project(df)
    /\ \E i \in 2..(Len(sorted_df) - 1) :
          /\ sorted_df[i] = DropMonthNum(df[Len(df)])
          /\ sorted_df[i - 1].Year = sorted_df[i].Year
          /\ sorted_df[i - 1].Month = sorted_df[i].Month
          /\ sorted_df[i - 1] # sorted_df[i]

(* -------------------------------- C10 --------------------------------- *)

\* C10: the two totals are the sums of Dengue_Cases and Dengue_Deaths over the
\* loaded Dataset, whatever the filters and the display mode; a Record appended
\* in the same pass is not in them, although the table of that pass holds it.
C10_TotalsOverLoaded ==
    /\ "total_cases" \in bound =>
          /\ total_cases = Total(csv, "Dengue_Cases")
          /\ total_deaths = Total(csv, "Dengue_Deaths")
    /\ (pc = "done" /\ ValidSubmission) =>
          /\ Len(sorted_df) = Len(csv) + 1
          /\ DropMonthNum(df[Len(df)]) \in Range(sorted_df)
          /\ Total(sorted_df, "Dengue_Cases") = total_cases + new_cases
          /\ Total(sorted_df, "Dengue_Deaths") = total_deaths + new_deaths

C10_Witness ==
    /\ pc = "done" /\ ValidSubmission
    /\ new_cases = MaxCount /\ new_deaths = MaxCount
    /\ selected_regions # {} /\ selected_years # {}
    /\ data_view_option = "Both"
    /\ Len(csv) = MaxRows
    /\ total_cases = 30 /\ total_deaths = 3
    /\ Total(sorted_df, "Dengue_Cases") = 30 + MaxCount

====
